---- MODULE Spec2Model ----
(***************************************************************************)
(* A model of the 0816 feeder tuner repository.                            *)
(*                                                                         *)
(* The repository holds several independent programs that share no state:  *)
(*   feeder_controller.py  FeederController / FeederBoard / BoardPosition  *)
(*   feeder_tuner.py       FeederControl and its menu                      *)
(*   feeder_tweaker.py     the jog tool built on module globals            *)
(*   feeder.py             the Feeder class (angle rule, registry)         *)
(* The variable prog says which of them a behaviour runs; it is chosen in  *)
(* Init and never changes.  Variables of the other programs keep their     *)
(* initial values.  The feeder registries are run on their own: "registry" *)
(* is the class-level list Feeder._feeders of feeder.py with its file,     *)
(* "catalog" is FeederControl.feeder_names of feeder_tuner.py with its     *)
(* file; neither shares state with the angle or serial code of its module. *)
(* "parse" is parse.py.  parse_m621_output uses the module re, which       *)
(* parse.py does not import; the model binds the name to Python's re.      *)
(*                                                                         *)
(* Two places of the source call names that Python does not bind as        *)
(* written: BoardPosition.enabled calls self.send_command (the class has   *)
(* no such method) and enable_disable_feeders passes the bare name         *)
(* handle_ok_response (defined only inside FeederControl).  The model      *)
(* binds them to the definitions of the same name, FeederController.       *)
(* send_command and FeederControl.handle_ok_response: the data flow of the *)
(* calling code is modelled as it is written.                              *)
(***************************************************************************)
EXTENDS Integers, Sequences, FiniteSets, TLC

VARIABLES
    prog,               \* "controller" | "tuner" | "tweaker" | "feeder" |
                        \* "registry" | "catalog" | "parse"
    \* ---- feeder_controller.py: FeederController and the serial line ----
    serial_port,        \* "None" | "open"   (self.serial_port / is_open)
    pc,                 \* "init" | "opened" | "idle" | "awaiting" | "matched" |
                        \* "timedout" | "aborted" | "exited"
    cur,                \* the send_command call in progress (NoCall when idle)
    nsent,              \* number of commands written so far (their sequence numbers)
    device,             \* sequence numbers the device has received and not yet answered
    inbuf,              \* lines in the port's input buffer, oldest first: [tag, text]
    response,           \* the line readline() returned to the current call
    ret,                \* what the last finished send_command returned to its caller
    outcome,            \* how the last finished send_command ended
    dispatched,         \* who got the response of the last call: handler / generic / none
    outstanding,        \* sequence numbers written whose send_command has not returned
    command_callbacks,  \* self.command_callbacks: command -> handler ("none" if absent)
    positions,          \* BoardPosition objects: position -> [enabled, current_angle]
    before,             \* engine state when the current send_command was entered
    \* ---- feeder_tuner.py: the FeederControl instance feeder_control ----
    feeder_enabled,     \* feeder_control.feeder_enabled
    servo_angle,        \* feeder_control.servo_angle
    \* ---- feeder_tweaker.py: module globals ----
    current_angle,      \* _current_angle
    \* ---- feeder.py: one Feeder object ----
    feeder_angle,       \* Feeder._current_angle (NoAngle for None)
    \* ---- the last operation of tuner, tweaker or feeder, for the claims ----
    last,               \* [op, instr, prev, kind, value, cmd, resp]
    \* ---- the angle rule applied once to a drawn input (SpecApply) ----
    instr,              \* the instruction drawn
    applied,            \* whether it has been applied
    \* ---- the feeder registries and their file feeders.json ----
    feeders,            \* feeder.py Feeder._feeders: [loaded, list] (not loaded = None)
    feeder_names,       \* feeder_tuner.py FeederControl.feeder_names: name -> feeder
    file,               \* feeders.json: [kind, records]
    reg,                \* the last registry operation, for the claims
    \* ---- a function applied once to a drawn argument (SpecData) ----
    input,              \* [fn, arg]: the function and its argument
    output,             \* [raised, value]: what the call raised or returned
    \* ---- the menus of feeder_tuner.py and feeder_tweaker.py (SpecMenu) ----
    feeder_address,     \* the selected feeder address: <<>> for None, or its characters
    jog                 \* jog_windows: [active, command_mode, input_buffer, key]

ctlVars == <<serial_port, pc, cur, nsent, device, inbuf, response, ret, outcome,
             dispatched, outstanding, command_callbacks, positions, before>>

regVars == <<feeders, feeder_names, file, reg>>

dataVars == <<input, output>>

menuVars == <<feeder_address, jog>>

toolVars == <<feeder_enabled, servo_angle, current_angle, feeder_angle, last,
              instr, applied, feeders, feeder_names, file, reg, input, output,
              feeder_address, jog>>

vars == <<prog, serial_port, pc, cur, nsent, device, inbuf, response, ret, outcome,
          dispatched, outstanding, command_callbacks, positions, before,
          feeder_enabled, servo_angle, current_angle, feeder_angle, last,
          instr, applied, feeders, feeder_names, file, reg, input, output,
          feeder_address, jog>>

----------------------------------------------------------------------------
(* Bounds of the model *)

\* commands written on one connection
MaxSends == 2
\* positions on the board
NumPositions == 1
\* characters in one angle instruction typed by the user
MaxLen == 3

----------------------------------------------------------------------------
(* feeder_controller.py *)

Positions == 0 .. (NumPositions - 1)

\* Commands callers pass to send_command directly.
Cmds == {"M115", "M602"}

\* Every command the controller writes: those, the two of the enabled setter
\* and the dump request.
AllCmds == Cmds \cup {"M610S1", "M610S0", "M621"}

\* Values passed as the callback of register_command_callback.
Callbacks == {"handle_m115_response", "notcallable"}

\* Angles passed to BoardPosition.update_angle.
UpdateAngles == {90}

\* A line with the firmware and hardware versions, as M115 is answered.
FirmwareLine == "FIRMWARE_VERSION:1 HW_VERSION:2"

\* What the device may write back as one line.
Texts == {"ok", "error", "junk", FirmwareLine}

\* BoardPosition._current_angle = None
NoAngle == -1

\* rtype is the response_type argument of send_command ("None" if omitted).
NoCall == [cmd |-> "none", seq |-> 0, caller |-> "none", pos |-> 0, val |-> FALSE,
           rtype |-> "None"]
NoResp == [tag |-> 0, text |-> ""]

\* BoardPosition.__init__: the enabled argument is stored as given.
BoardPosition(enabled) == [enabled |-> enabled, current_angle |-> NoAngle]

\* FeederBoard.__init__: every position of the topology file, built without
\* an enabled argument.
FeederBoard == [p \in Positions |-> BoardPosition(FALSE)]

\* response.startswith("ok") and response.startswith("error") on the lines
\* the device writes.
startswith_ok(resp) == resp = "ok"
startswith_error(resp) == resp = "error"

\* re.finditer(firmware_info_pattern, response) finds a match.
has_versions(resp) == resp = FirmwareLine

\* generic_callback, lines 200-223: the value it returns.  Without a
\* response_type: True for ok, False for error, and the end of the function
\* (None) for anything else.  For "M115": the result dictionary, with the
\* versions or empty.  For any other response_type neither branch is taken.
generic_callback(resp, response_type) ==
    IF response_type = "None"
    THEN IF startswith_ok(resp) THEN "True"
         ELSE IF startswith_error(resp) THEN "False"
         ELSE "None"
    ELSE IF response_type = "M115"
         THEN IF has_versions(resp) THEN "{versions}" ELSE "{}"
         ELSE "None"

\* generic_callback, lines 200-223: what it logs about the response.  A
\* response that begins with neither ok nor error is not logged.
generic_callback_logged(resp, response_type) ==
    IF response_type = "None"
    THEN IF startswith_ok(resp) THEN <<"Command successful.">>
         ELSE IF startswith_error(resp) THEN <<"Command failed: ", resp>>
         ELSE <<>>
    ELSE IF response_type = "M115"
         THEN <<"We're in the M115 response now.">>
         ELSE <<>>

\* send_command, lines 161-162: the bytes written for a command.
full_command(command) == <<command, "\n">>

\* handle_m115_response, lines 184-198: the dictionary it returns.
handle_m115_response(resp) ==
    IF has_versions(resp) THEN "{versions}" ELSE "{}"

\* What the engine keeps of the versions once the M115 exchange is over:
\* send_command drops the callback's result (lines 172, 174),
\* request_firmware_info drops send_command's (line 181), and __init__
\* makes no attribute for them (lines 88-93).
cached_version_info(result) == "None"

\* send_command has no return statement that carries a value: whatever
\* happened, the caller gets None.
SendReturn(how) == "None"

\* Python truthiness of a send_command result, as tested by the enabled setter.
Truthy(r) == r \notin {"None", "False"}

\* The command the enabled setter sends for a requested value.
SetterCommand(value, enabled) ==
    IF value /\ ~enabled THEN "M610S1" ELSE "M610S0"

NoBefore == [positions |-> FeederBoard, command_callbacks |-> [c \in AllCmds |-> "none"]]

\* The engine state a failed command must leave alone.
EngineState == [positions |-> positions, command_callbacks |-> command_callbacks]

\* The code that runs in the caller once send_command has returned r.
\* BoardPosition.enabled setter: the flag follows the command only when the
\* result is truthy.  Any other caller drops the result.
AfterSend(call, r) ==
    IF call.caller = "setter" /\ Truthy(r)
    THEN /\ positions' = [positions EXCEPT ![call.pos].enabled = (call.cmd = "M610S1")]
    ELSE /\ positions' = positions

\* send_command as it would be if its except clause gave the port up the way
\* open_serial_port's does (self.serial_port = None).
send_command_return_drop(call, how) ==
    /\ ret' = SendReturn(how)
    /\ outcome' = how
    /\ AfterSend(call, ret')
    /\ outstanding' = outstanding \ {call.seq}
    /\ pc' = "idle"
    /\ cur' = NoCall
    /\ serial_port' = IF how = "exception" THEN "None" ELSE serial_port
    /\ UNCHANGED command_callbacks

\* send_command returns to its caller: the caller's continuation runs, the
\* exchange is over.
send_command_return(call, how) ==
    /\ ret' = SendReturn(how)
    /\ outcome' = how
    /\ AfterSend(call, ret')
    /\ outstanding' = outstanding \ {call.seq}
    /\ pc' = "idle"
    /\ cur' = NoCall
    /\ UNCHANGED <<serial_port, command_callbacks>>

\* send_command, lines 156-158: the port is missing or closed; nothing is
\* written and the call returns.
send_command_notopen(call) ==
    /\ serial_port # "open"
    /\ send_command_return(call, "notconnected")
    /\ UNCHANGED <<nsent, device, inbuf, response, dispatched, before>>

\* send_command as it would be if it wrote the command and returned without
\* reading the reply.
send_command_write_async(call) ==
    /\ serial_port = "open"
    /\ nsent < MaxSends
    /\ nsent' = nsent + 1
    /\ cur' = NoCall
    /\ device' = device \cup {nsent + 1}
    /\ outstanding' = outstanding \cup {nsent + 1}
    /\ pc' = "idle"
    /\ before' = NoBefore
    /\ dispatched' = "none"
    /\ response' = NoResp
    /\ UNCHANGED <<serial_port, inbuf, ret, outcome, command_callbacks, positions>>

\* send_command, lines 160-163: the command and a newline are written and
\* the call blocks in readline().
send_command_write(call) ==
    /\ serial_port = "open"
    /\ nsent < MaxSends
    /\ nsent' = nsent + 1
    /\ cur' = [call EXCEPT !.seq = nsent + 1]
    /\ device' = device \cup {nsent + 1}
    /\ outstanding' = outstanding \cup {nsent + 1}
    /\ pc' = "awaiting"
    /\ before' = EngineState
    /\ dispatched' = "none"
    /\ response' = NoResp
    /\ UNCHANGED <<serial_port, inbuf, ret, outcome, command_callbacks, positions>>

\* send_command, lines 162 and 177-178: write() raises SerialException; the
\* handler logs it.
send_command_write_error(call) ==
    /\ serial_port = "open"
    /\ cur' = call
    /\ pc' = "aborted"
    /\ before' = EngineState
    /\ dispatched' = "none"
    /\ response' = NoResp
    /\ UNCHANGED <<serial_port, nsent, device, inbuf, ret, outcome, outstanding,
                   command_callbacks, positions>>

\* send_command, lines 166-174: readline() returns a line; the callback
\* registered for the command gets it, otherwise generic_callback.
send_command_readline ==
    /\ pc = "awaiting"
    /\ inbuf # <<>>
    /\ response' = Head(inbuf)
    /\ inbuf' = Tail(inbuf)
    /\ dispatched' = IF command_callbacks[cur.cmd] # "none" THEN "handler" ELSE "generic"
    /\ pc' = "matched"
    /\ UNCHANGED <<serial_port, cur, nsent, device, ret, outcome, outstanding,
                   command_callbacks, positions, before>>

\* send_command, lines 166 and 175-176: the read timeout (timeout=1, line 139)
\* elapses with nothing in the buffer; readline() returns b"".
send_command_timeout ==
    /\ pc = "awaiting"
    /\ inbuf = <<>>
    /\ response' = NoResp
    /\ pc' = "timedout"
    /\ UNCHANGED <<serial_port, cur, nsent, device, inbuf, ret, outcome, dispatched,
                   outstanding, command_callbacks, positions, before>>

\* send_command, lines 166 and 177-178: readline() raises SerialException.
send_command_read_error ==
    /\ pc = "awaiting"
    /\ pc' = "aborted"
    /\ UNCHANGED <<serial_port, cur, nsent, device, inbuf, response, ret, outcome,
                   dispatched, outstanding, command_callbacks, positions, before>>

\* How an exchange that left AwaitingResponse is reported when it returns.
HowEnded(phase) ==
    CASE phase = "matched"  -> "matched"
      [] phase = "timedout" -> "timeout"
      [] OTHER              -> "exception"

\* The controller program is the one running: the other programs' state stays.
RunningController == prog = "controller" /\ UNCHANGED <<prog, toolVars>>

\* One of the other programs is running: nothing of the controller moves but
\* the port, which each program opens for itself.
RunningTool(p) ==
    /\ prog = p
    /\ UNCHANGED <<prog, pc, cur, nsent, device, inbuf, response, ret, outcome,
                   dispatched, outstanding, command_callbacks, positions, before>>
    /\ UNCHANGED regVars
    /\ UNCHANGED dataVars
    /\ UNCHANGED menuVars

\* send_command as its callers see it: one of its three ways in.
send_command(call) ==
    \/ send_command_notopen(call)
    \/ send_command_write(call)
    \/ send_command_write_error(call)

\* open_serial_port, lines 133-141: serial.Serial(...) succeeds.
open_serial_port_ok ==
    /\ RunningController
    /\ pc = "init"
    /\ serial_port' = "open"
    /\ pc' = "opened"
    /\ UNCHANGED <<cur, nsent, device, inbuf, response, ret, outcome, dispatched,
                   outstanding, command_callbacks, positions, before>>

\* open_serial_port, lines 143-145: serial.Serial(...) raises SerialException;
\* the handler prints, sets serial_port to None and __init__ goes on.
open_serial_port_fail ==
    /\ RunningController
    /\ pc = "init"
    /\ serial_port' = "None"
    /\ pc' = "idle"
    /\ UNCHANGED <<cur, nsent, device, inbuf, response, ret, outcome, dispatched,
                   outstanding, command_callbacks, positions, before>>

\* request_firmware_info, called by open_serial_port right after the open.
request_firmware_info ==
    /\ RunningController
    /\ pc = "opened"
    /\ send_command([NoCall EXCEPT !.cmd = "M115", !.caller = "api", !.rtype = "M115"])

\* Any later send_command call of the program.
CallSendCommand(c) ==
    /\ RunningController
    /\ pc = "idle"
    /\ send_command([NoCall EXCEPT !.cmd = c, !.caller = "api"])

\* BoardPosition.enabled setter, lines 38-46.  Its second argument,
\* self.handle_response, is taken by send_command as the response_type.
enabled_setter(p, value) ==
    /\ RunningController
    /\ pc = "idle"
    /\ send_command([cmd |-> SetterCommand(value, positions[p].enabled), seq |-> 0,
                     caller |-> "setter", pos |-> p, val |-> value,
                     rtype |-> "handle_response"])

\* The blocked send_command call returns.
Return ==
    /\ RunningController
    /\ pc \in {"matched", "timedout", "aborted"}
    /\ send_command_return(cur, HowEnded(pc))
    /\ response' = NoResp
    /\ dispatched' = "none"
    /\ before' = NoBefore
    /\ UNCHANGED <<nsent, device, inbuf>>

ReadLine ==
    /\ RunningController
    /\ send_command_readline

ReadTimeout ==
    /\ RunningController
    /\ send_command_timeout

ReadError ==
    /\ RunningController
    /\ send_command_read_error

\* A BoardPosition is constructed with an explicit enabled argument
\* (BoardPosition.__init__, line 20), before the port is opened.
BoardPosition_init(p, enabled) ==
    /\ RunningController
    /\ pc = "init"
    /\ positions' = [positions EXCEPT ![p] = BoardPosition(enabled)]
    /\ UNCHANGED <<serial_port, pc, cur, nsent, device, inbuf, response, ret, outcome,
                   dispatched, outstanding, command_callbacks, before>>

\* BoardPosition.update_angle, lines 23-24.
update_angle(p, new_angle) ==
    /\ RunningController
    /\ pc = "idle"
    /\ positions' = [positions EXCEPT ![p].current_angle = new_angle]
    /\ UNCHANGED <<serial_port, pc, cur, nsent, device, inbuf, response, ret, outcome,
                   dispatched, outstanding, command_callbacks, before>>

\* callable(callback), line 272.
callable(callback) == callback # "notcallable"

\* register_command_callback as it would be without the test of line 272.
register_command_callback_unchecked(table, command, callback) ==
    [raised |-> "none", value |-> [table EXCEPT ![command] = callback]]

\* register_command_callback, lines 270-274, on a handler table: what it
\* raises and the table it leaves.
register_command_callback_result(table, command, callback) ==
    IF ~callable(callback)
    THEN [raised |-> "ValueError", value |-> table]
    ELSE [raised |-> "none", value |-> [table EXCEPT ![command] = callback]]

\* register_command_callback, lines 270-274.
register_command_callback(command, callback) ==
    /\ RunningController
    /\ pc = "idle"
    /\ command_callbacks' =
           register_command_callback_result(command_callbacks, command, callback).value
    /\ UNCHANGED <<serial_port, pc, cur, nsent, device, inbuf, response, ret, outcome,
                   dispatched, outstanding, positions, before>>

\* serial.Serial.close() on a port object: an open port is closed; the model
\* tells a close() of a port that is not open apart as "reclosed".
Serial_close(port) == IF port = "open" THEN "closed" ELSE "reclosed"

\* close_serial_port as it would be without the is_open test of line 148.
close_serial_port_unguarded(port) ==
    IF port = "None" THEN port ELSE Serial_close(port)

\* close_serial_port, lines 147-153: the port it leaves.
close_serial_port_result(port) ==
    IF port # "None" /\ port = "open" THEN Serial_close(port) ELSE port

\* The program calls close_serial_port itself.
close_serial_port ==
    /\ RunningController
    /\ pc = "idle"
    /\ serial_port' = close_serial_port_result(serial_port)
    /\ UNCHANGED <<pc, cur, nsent, device, inbuf, response, ret, outcome, dispatched,
                   outstanding, command_callbacks, positions, before>>

\* The interpreter exits and runs the hook registered with atexit (line 95),
\* close_serial_port.
atexit_close_serial_port ==
    /\ RunningController
    /\ pc = "idle"
    /\ serial_port' = close_serial_port_result(serial_port)
    /\ pc' = "exited"
    /\ UNCHANGED <<cur, nsent, device, inbuf, response, ret, outcome, dispatched,
                   outstanding, command_callbacks, positions, before>>

\* The device answers the oldest command it still holds with one line.  It
\* does so whenever it likes: in time, or after the caller's read timed out.
DeviceReply(text) ==
    /\ RunningController
    /\ device # {}
    /\ LET s == CHOOSE x \in device : \A y \in device : x <= y
       IN /\ device' = device \ {s}
          /\ inbuf' = Append(inbuf, [tag |-> s, text |-> text])
    /\ UNCHANGED <<serial_port, pc, cur, nsent, response, ret, outcome, dispatched,
                   outstanding, command_callbacks, positions, before>>

\* The command or its reply is lost on the line.
DeviceDrop ==
    /\ RunningController
    /\ device # {}
    /\ LET s == CHOOSE x \in device : \A y \in device : x <= y
       IN device' = device \ {s}
    /\ UNCHANGED <<serial_port, pc, cur, nsent, inbuf, response, ret, outcome, dispatched,
                   outstanding, command_callbacks, positions, before>>

NextController ==
    \/ open_serial_port_ok
    \/ open_serial_port_fail
    \/ request_firmware_info
    \/ \E c \in Cmds : CallSendCommand(c)
    \/ \E p \in Positions, v \in BOOLEAN : enabled_setter(p, v)
    \/ ReadLine
    \/ ReadTimeout
    \/ ReadError
    \/ Return
    \/ \E p \in Positions, b \in BOOLEAN : BoardPosition_init(p, b)
    \/ \E p \in Positions, a \in UpdateAngles : update_angle(p, a)
    \/ \E c \in Cmds, h \in Callbacks : register_command_callback(c, h)
    \/ \E t \in Texts : DeviceReply(t)
    \/ DeviceDrop

\* What the device writes back for M621: one line per header, position and
\* closing ok; here a board section without positions.
DumpReply == <<"BoardAddr:0", "ok">>

\* The lines of a reply, each tagged with the command it answers.
Tagged(s, texts) == [i \in 1 .. Len(texts) |-> [tag |-> s, text |-> texts[i]]]

\* The device answers the M621 the caller is waiting on with the whole dump.
DeviceDump ==
    /\ RunningController
    /\ pc = "awaiting"
    /\ cur.cmd = "M621"
    /\ cur.seq \in device
    /\ \A y \in device : cur.seq <= y
    /\ device' = device \ {cur.seq}
    /\ inbuf' = inbuf \o Tagged(cur.seq, DumpReply)
    /\ UNCHANGED <<serial_port, pc, cur, nsent, response, ret, outcome, dispatched,
                   outstanding, command_callbacks, positions, before>>

\* The commands of a program that asks for dumps.
DumpCmds == {"M621", "M602"}

\* The controller asking the device for dumps.
NextDump ==
    \/ open_serial_port_ok
    \/ open_serial_port_fail
    \/ request_firmware_info
    \/ \E c \in DumpCmds : CallSendCommand(c)
    \/ ReadLine
    \/ ReadTimeout
    \/ ReadError
    \/ Return
    \/ \E t \in Texts : DeviceReply(t)
    \/ DeviceDrop
    \/ DeviceDump

\* The controller from construction to exit: the exchanges of NextController
\* that use the port, and the two ways the port is closed.
NextShutdown ==
    \/ open_serial_port_ok
    \/ open_serial_port_fail
    \/ request_firmware_info
    \/ \E c \in Cmds : CallSendCommand(c)
    \/ ReadLine
    \/ ReadTimeout
    \/ ReadError
    \/ Return
    \/ \E t \in Texts : DeviceReply(t)
    \/ DeviceDrop
    \/ close_serial_port
    \/ atexit_close_serial_port

\* FeederController.__init__, lines 88-93, up to the call of open_serial_port.
InitController ==
    /\ cur = NoCall
    /\ nsent = 0
    /\ device = {}
    /\ inbuf = <<>>
    /\ response = NoResp
    /\ ret = "None"
    /\ outcome = "none"
    /\ dispatched = "none"
    /\ outstanding = {}
    /\ command_callbacks = [c \in AllCmds |-> "none"]
    /\ positions = FeederBoard
    /\ before = NoBefore
    /\ pc = "init"

----------------------------------------------------------------------------
(* Angle instructions: the strings the three angle-adjusting places take *)

DigitChars == {"0", "1", "2", "3", "4", "5", "6", "7", "8", "9"}

\* The characters the model types: two signs, two digits, one other key.
InstrChars == {"+", "-", "0", "9", "x"}

RECURSIVE StringsUpTo(_)
StringsUpTo(n) ==
    IF n = 0 THEN {<<>>}
    ELSE LET shorter == StringsUpTo(n - 1)
         IN shorter \cup {Append(t, c) : t \in shorter, c \in InstrChars}

Instructions == StringsUpTo(MaxLen)

\* Lines typed at a prompt in the running programs: relative moves both ways,
\* absolute angles below and above 360, and a line that is no number.
TypedAngles == {<<"+", "9", "0">>, <<"-", "9", "0">>, <<"0">>, <<"9", "9", "9">>, <<"x">>}

\* Angles the rule is applied at in SpecApply: the ends of the range and
\* values between.
StartAngles == {0, 1, 9, 90, 180, 270, 351, 359}

DigitVal(c) ==
    CASE c = "0" -> 0 [] c = "1" -> 1 [] c = "2" -> 2 [] c = "3" -> 3 [] c = "4" -> 4
      [] c = "5" -> 5 [] c = "6" -> 6 [] c = "7" -> 7 [] c = "8" -> 8 [] OTHER -> 9

DigitChar(d) ==
    CASE d = 0 -> "0" [] d = 1 -> "1" [] d = 2 -> "2" [] d = 3 -> "3" [] d = 4 -> "4"
      [] d = 5 -> "5" [] d = 6 -> "6" [] d = 7 -> "7" [] d = 8 -> "8" [] OTHER -> "9"

IsDigits(t) == Len(t) >= 1 /\ \A i \in 1 .. Len(t) : t[i] \in DigitChars

RECURSIVE NatVal(_)
NatVal(t) ==
    IF t = <<>> THEN 0
    ELSE 10 * NatVal(SubSeq(t, 1, Len(t) - 1)) + DigitVal(t[Len(t)])

\* Python's int(text) on these characters: an optional sign, then one or
\* more digits; anything else raises ValueError.
PyInt(t) ==
    IF t # <<>> /\ t[1] \in {"+", "-"}
    THEN IF IsDigits(Tail(t))
         THEN [ok |-> TRUE, val |-> IF t[1] = "-" THEN 0 - NatVal(Tail(t)) ELSE NatVal(Tail(t))]
         ELSE [ok |-> FALSE, val |-> 0]
    ELSE IF IsDigits(t)
         THEN [ok |-> TRUE, val |-> NatVal(t)]
         ELSE [ok |-> FALSE, val |-> 0]

\* Python's str(a) for a >= 0.
RECURSIVE PyStr(_)
PyStr(a) ==
    IF a < 10 THEN <<DigitChar(a)>>
    ELSE Append(PyStr(a \div 10), DigitChar(a % 10))

\* input_str.startswith(("+", "-"))
StartsWithSign(t) == t # <<>> /\ t[1] \in {"+", "-"}

Yields(v) == [kind |-> "ok", value |-> v]
Raises(e) == [kind |-> e, value |-> 0]

\* The remainder as C and Java compute it: it takes the sign of the dividend.
TruncRem(a, n) == IF a < 0 THEN 0 - ((0 - a) % n) ELSE a % n

\* adjust_angle as it would be with a remainder that keeps the sign.
adjust_angle_result_trunc(current, input_str) ==
    IF StartsWithSign(input_str)
    THEN IF PyInt(input_str).ok
         THEN Yields(TruncRem(current + PyInt(input_str).val, 360))
         ELSE Raises("ValueError")
    ELSE IF PyInt(input_str).ok
         THEN Yields(TruncRem(PyInt(input_str).val, 360))
         ELSE Raises("ValueError")

\* feeder_tweaker.py adjust_angle, lines 295-306: the new _current_angle, or
\* the ValueError its except clause catches.
adjust_angle_result(current, input_str) ==
    IF StartsWithSign(input_str)
    THEN IF PyInt(input_str).ok
         THEN Yields((current + PyInt(input_str).val) % 360)
         ELSE Raises("ValueError")
    ELSE IF PyInt(input_str).ok
         THEN Yields(PyInt(input_str).val % 360)
         ELSE Raises("ValueError")

\* feeder_tuner.py drive_servo, lines 262-269.
drive_servo_result(servo, angle) ==
    IF StartsWithSign(angle)
    THEN IF PyInt(angle).ok
         THEN Yields((servo + PyInt(angle).val) % 360)
         ELSE Raises("ValueError")
    ELSE IF PyInt(angle).ok
         THEN Yields(PyInt(angle).val % 360)
         ELSE Raises("ValueError")

\* feeder.py Feeder._normalize_angle applied to an integer.
Feeder_normalize_angle(angle) == angle % 360

\* feeder.py Feeder.adjust_angle, lines 153-165.  A relative move converts the
\* text with int() and normalizes the sum.  An absolute move hands the text
\* itself to _normalize_angle, whose % on a str is string formatting and raises
\* TypeError, which the except ValueError clause does not catch.
Feeder_adjust_angle_result(current, new_angle) ==
    IF StartsWithSign(new_angle)
    THEN IF PyInt(new_angle).ok
         THEN Yields(Feeder_normalize_angle(current + PyInt(new_angle).val))
         ELSE Raises("ValueError")
    ELSE Raises("TypeError")

NoLast == [op |-> "none", instr |-> <<>>, prev |-> 0, kind |-> "none", value |-> 0,
           cmd |-> "none", resp |-> "none"]

AdjustLast(text, prev, res, cmd, resp) ==
    [op |-> "adjust", instr |-> text, prev |-> prev, kind |-> res.kind,
     value |-> res.value, cmd |-> cmd, resp |-> resp]

----------------------------------------------------------------------------
(* feeder_tweaker.py *)

\* send_command, lines 138-143: with no port the call only prints; with an
\* open port the is_open test returns as well.  Nothing is written.
tweaker_send_command(port) ==
    IF port = "None" THEN "simulated" ELSE "refused"

\* adjust_angle, lines 288-306: the global is assigned first, then the M603
\* command is handed to send_command.
adjust_angle(input_str) ==
    /\ LET res == adjust_angle_result(current_angle, input_str)
       IN /\ current_angle' = IF res.kind = "ok" THEN res.value ELSE current_angle
          /\ last' = AdjustLast(input_str, current_angle, res,
                                IF res.kind = "ok" THEN "M603" ELSE "none",
                                IF res.kind = "ok" THEN tweaker_send_command(serial_port)
                                ELSE "none")
    /\ UNCHANGED <<serial_port, feeder_enabled, servo_angle, feeder_angle>>

\* Keys jog_windows hands to handle_command (line 224); "o" stands for the
\* keys of that list which handle_command accepts and does nothing for.
Keys == {".", ",", ">", "<", "o"}

\* handle_command, lines 248-261: what the key does.
handle_command_body(key) ==
    CASE key = "." -> adjust_angle(<<"+", "1">>)
      [] key = "," -> adjust_angle(<<"-", "1">>)
      [] key = ">" -> adjust_angle(<<"+", "5">>)
      [] key = "<" -> adjust_angle(<<"-", "5">>)
      [] OTHER -> /\ last' = NoLast
                  /\ UNCHANGED <<serial_port, feeder_enabled, servo_angle,
                                 current_angle, feeder_angle>>

\* handle_command, lines 248-261.
handle_command(key) ==
    /\ RunningTool("tweaker")
    /\ UNCHANGED <<instr, applied>>
    /\ handle_command_body(key)

NextTweaker ==
    \E k \in Keys : handle_command(k)

----------------------------------------------------------------------------
(* feeder_tuner.py *)

\* What FeederControl.send_command reads back: a line of the device, or
\* nothing before the timeout.
TunerReplies == Texts \cup {"none"}

\* FeederControl.open_serial_port, lines 154-174, with a port selected.
tuner_open_serial_port(ok) ==
    /\ RunningTool("tuner")
    /\ serial_port = "None"
    /\ serial_port' = IF ok THEN "open" ELSE "None"
    /\ last' = NoLast
    /\ UNCHANGED <<feeder_enabled, servo_angle, current_angle, feeder_angle,
                   instr, applied>>

\* FeederControl.send_command, line 188: the bytes written for a command.
tuner_written(command) == <<command>>

\* handle_ok_response, lines 200-204 (feeder_tweaker.py lines 157-161 are the
\* same): what it prints for a response.
handle_ok_response(resp) ==
    IF startswith_ok(resp) THEN <<"Operation successful.">>
    ELSE <<"Unexpected response.", resp>>

\* FeederControl.send_command, lines 182-198: the reply the callback gets, or
\* why there is none.  The callback only prints.
tuner_send_command(port, reply) ==
    IF port # "open" THEN "notsent" ELSE reply

\* enable_disable_feeders, lines 230-237.  The branch is chosen by the current
\* flag; the first branch stores the argument whatever send_command did, the
\* second stores nothing.
enable_disable_feeders(enable, reply) ==
    /\ IF ~feeder_enabled
       THEN /\ last' = [NoLast EXCEPT !.op = "enable", !.cmd = "M611 S1",
                                      !.resp = tuner_send_command(serial_port, reply)]
            /\ feeder_enabled' = enable
       ELSE /\ last' = [NoLast EXCEPT !.op = "enable", !.cmd = "M611 S0",
                                      !.resp = tuner_send_command(serial_port, reply)]
            /\ feeder_enabled' = feeder_enabled
    /\ UNCHANGED <<serial_port, servo_angle, current_angle, feeder_angle>>

\* main_menu choice "2", line 294.
MenuEnableDisable(reply) ==
    /\ RunningTool("tuner")
    /\ UNCHANGED <<instr, applied>>
    /\ enable_disable_feeders(~feeder_enabled, reply)

\* drive_servo, lines 258-269 (main_menu choice "4").
drive_servo(angle) ==
    /\ LET res == drive_servo_result(servo_angle, angle)
       IN /\ servo_angle' = IF res.kind = "ok" THEN res.value ELSE servo_angle
          /\ last' = AdjustLast(angle, servo_angle, res, "none", "none")
    /\ UNCHANGED <<serial_port, feeder_enabled, current_angle, feeder_angle>>

\* main_menu choice "4" with a line typed at the prompt.
MenuDriveServo(angle) ==
    /\ RunningTool("tuner")
    /\ UNCHANGED <<instr, applied>>
    /\ drive_servo(angle)

NextTuner ==
    \/ \E ok \in BOOLEAN : tuner_open_serial_port(ok)
    \/ \E r \in TunerReplies : MenuEnableDisable(r)
    \/ \E t \in TypedAngles : MenuDriveServo(t)

----------------------------------------------------------------------------
(* feeder.py *)

\* Feeder.adjust_angle, lines 147-165: an unset _current_angle becomes 180;
\* the new angle is returned (or the call raises), never stored.
Feeder_adjust_angle(new_angle) ==
    /\ LET current == IF feeder_angle = NoAngle THEN 180 ELSE feeder_angle
           res == Feeder_adjust_angle_result(current, new_angle)
       IN /\ feeder_angle' = current
          /\ last' = AdjustLast(new_angle, current, res, "none", "none")
    /\ UNCHANGED <<serial_port, feeder_enabled, servo_angle, current_angle>>

\* A caller of the Feeder class adjusts the angle of its feeder.
CallFeederAdjustAngle(new_angle) ==
    /\ RunningTool("feeder")
    /\ UNCHANGED <<instr, applied>>
    /\ Feeder_adjust_angle(new_angle)

NextFeeder ==
    \E t \in TypedAngles : CallFeederAdjustAngle(t)

----------------------------------------------------------------------------
(* feeder.py: the registry Feeder._feeders and its file *)

\* feeders in a registry or records in a file
MaxFeeders == 2
\* The longest dump, in lines, handed to the parsers of parse.py.
MaxLines == 4

\* Feeder ids, and values of the configuration field advance_angle, which
\* stands for every field that is persisted beside the id.
Ids == {"a", "b"}
Cfgs == {45, 120}

\* Feeder.__init__, lines 26-62: the attributes of a new object.  The two
\* transient attributes are not parameters: they start as None and False.
Feeder_init(id, advance_angle) ==
    ("id" :> id) @@ ("_advance_angle" :> advance_angle)
        @@ ("_current_angle" :> NoAngle) @@ ("_enabled" :> FALSE)

\* The keyword parameters Feeder.__init__ accepts.
InitParams == {"id", "advance_angle"}

\* Feeder._ephemeral_keys, line 24.
ephemeral_keys == {"_current_angle", "_enabled"}

\* key.lstrip('_') on the attribute names.
Lstrip(key) ==
    CASE key = "_advance_angle" -> "advance_angle"
      [] key = "_current_angle" -> "current_angle"
      [] key = "_enabled" -> "enabled"
      [] OTHER -> key

\* to_dictionary with nothing excluded.
to_dictionary_all(feeder) ==
    LET keys == DOMAIN feeder
    IN [k \in {Lstrip(key) : key \in keys} |->
            feeder[CHOOSE key \in keys : Lstrip(key) = k]]

\* Feeder.to_dictionary, lines 65-70: every attribute that is not an
\* ephemeral key, under its name without leading underscores.
to_dictionary(feeder) ==
    LET keys == DOMAIN feeder \ ephemeral_keys
    IN [k \in {Lstrip(key) : key \in keys} |->
            feeder[CHOOSE key \in keys : Lstrip(key) = k]]

\* cls(**data) binds: an id is given and every key is a parameter.
CanConstruct(data) == "id" \in DOMAIN data /\ DOMAIN data \subseteq InitParams

\* Feeder.from_dictionary, lines 73-77: cls(**data).
from_dictionary(data) ==
    Feeder_init(data["id"],
                IF "advance_angle" \in DOMAIN data THEN data["advance_angle"]
                ELSE NoAngle)

\* Feeder._feeders = None (line 23), and a loaded list.
NoFeeders == [loaded |-> FALSE, list |-> <<>>]
Loaded(list) == [loaded |-> TRUE, list |-> list]

\* feeders.json: absent, not JSON, or a JSON array of records.
MissingFile == [kind |-> "missing", records |-> <<>>]
MalformedFile == [kind |-> "malformed", records |-> <<>>]
Document(records) == [kind |-> "json", records |-> records]

RECURSIVE SeqsUpTo(_, _)
SeqsUpTo(S, n) ==
    IF n = 0 THEN {<<>>}
    ELSE LET shorter == SeqsUpTo(S, n - 1)
         IN shorter \cup {Append(t, x) : t \in shorter, x \in S}

\* The records a file of the feeder.py registry may hold: the persisted keys
\* with any id and configuration; nothing makes the ids of a file distinct.
FileRecords == {("id" :> i) @@ ("advance_angle" :> c) : i \in Ids, c \in Cfgs}

Files == {MissingFile, MalformedFile}
            \cup {Document(rs) : rs \in SeqsUpTo(FileRecords, MaxFeeders)}

\* The ids of a list of feeders, in order.
IdsOf(list) == [i \in 1 .. Len(list) |-> list[i]["id"]]
HasId(list, id) == \E i \in 1 .. Len(list) : list[i]["id"] = id

\* next((feeder for feeder in list if feeder.id == id), None): the index of
\* the first match, 0 for None.
FirstWithId(list, id) ==
    IF HasId(list, id)
    THEN CHOOSE i \in 1 .. Len(list) :
            list[i]["id"] = id /\ \A j \in 1 .. (i - 1) : list[j]["id"] # id
    ELSE 0

NoReg == [op |-> "none", a |-> "", b |-> "", io |-> "", raised |-> "none",
          logged |-> "none", was |-> NoFeeders, file_was |-> MissingFile]

\* What an operation leaves: the registry, the file, and how it ended.
Result(fs, f, raised, logged) ==
    [feeders |-> fs, file |-> f, raised |-> raised, logged |-> logged]

\* Feeder.load_from_json, lines 183-199.  The file is read only while the
\* registry is None; a missing file and a file that is not JSON both leave an
\* empty list.
load_from_json_result(fs, f) ==
    IF fs.loaded THEN Result(fs, f, "none", "none")
    ELSE CASE f.kind = "missing" -> Result(Loaded(<<>>), f, "none", "notfound")
           [] f.kind = "malformed" -> Result(Loaded(<<>>), f, "none", "decodeerror")
           [] OTHER ->
                IF \A i \in 1 .. Len(f.records) : CanConstruct(f.records[i])
                THEN Result(Loaded([i \in 1 .. Len(f.records) |->
                                        from_dictionary(f.records[i])]),
                            f, "none", "none")
                ELSE Result(fs, f, "TypeError", "none")

\* What json.dump writes for a list of feeders, line 208.
feeders_data(list) == [i \in 1 .. Len(list) |-> to_dictionary(list[i])]

\* Feeder.save_to_json, lines 201-215.  io says how the writing goes: "ok",
\* "openfails" (the file stays as it is) or "writefails" (the file was
\* truncated by open and is left incomplete).  Every exception is logged.
save_to_json_result(fs, f, io) ==
    IF ~fs.loaded \/ Len(fs.list) = 0 THEN Result(fs, f, "none", "nofeeders")
    ELSE CASE io = "ok" -> Result(fs, Document(feeders_data(fs.list)), "none", "saved")
           [] io = "openfails" -> Result(fs, f, "none", "saveerror")
           [] OTHER -> Result(fs, MalformedFile, "none", "saveerror")

\* clone_feeder, line 82: existing_feeder is bound to the pair
\* (next(...), None), and a pair is never None, whatever next() found.
ExistingFeederIsNone == FALSE

\* How the writing of the file may go.
IOs == {"ok", "openfails", "writefails"}

\* clone_feeder, lines 87-99: the source is looked up, its dictionary gets the
\* new id, the clone is appended and the list is saved.
clone_feeder_rest(fs, f, current_feeder_id, new_feeder_id, io) ==
    LET src == FirstWithId(fs.list, current_feeder_id)
    IN IF src # 0
       THEN LET feeder_dict == ("id" :> new_feeder_id) @@ to_dictionary(fs.list[src])
                appended == Loaded(Append(fs.list, from_dictionary(feeder_dict)))
            IN Result(appended, save_to_json_result(appended, f, io).file,
                      "none", "cloned")
       ELSE Result(fs, f, "none", "nosource")

\* clone_feeder with its first four lines left out.
clone_feeder_result_nocheck(fs, f, current_feeder_id, new_feeder_id, io) ==
    IF ~fs.loaded THEN Result(fs, f, "TypeError", "none")
    ELSE clone_feeder_rest(fs, f, current_feeder_id, new_feeder_id, io)

\* Feeder.clone_feeder, lines 79-99.  next() has no default on line 82: with
\* no feeder of the new id it raises StopIteration, and iterating a registry
\* that is None raises TypeError.  With a feeder of the new id the warning is
\* logged and the call returns.
clone_feeder_result(fs, f, current_feeder_id, new_feeder_id, io) ==
    IF ~fs.loaded THEN Result(fs, f, "TypeError", "none")
    ELSE IF ~HasId(fs.list, new_feeder_id) THEN Result(fs, f, "StopIteration", "none")
    ELSE IF ~ExistingFeederIsNone THEN Result(fs, f, "none", "duplicate")
    ELSE clone_feeder_rest(fs, f, current_feeder_id, new_feeder_id, io)

\* Feeder.delete_feeder, lines 136-140: the feeder is looked up and nothing
\* is done with it.
delete_feeder_result(fs, f, feeder_id) ==
    IF ~fs.loaded THEN Result(fs, f, "TypeError", "none")
    ELSE Result(fs, f, "none", "none")

\* The registry of feeder.py is the part running.
RunningRegistry(p) ==
    /\ prog = p
    /\ UNCHANGED <<prog, ctlVars, feeder_enabled, servo_angle, current_angle,
                   feeder_angle, last, instr, applied>>
    /\ UNCHANGED dataVars
    /\ UNCHANGED menuVars

\* An operation of the feeder.py registry has run with the result res.
RegistryStep(op, a, b, io, res) ==
    /\ feeders' = res.feeders
    /\ file' = res.file
    /\ reg' = [op |-> op, a |-> a, b |-> b, io |-> io, raised |-> res.raised,
               logged |-> res.logged, was |-> feeders, file_was |-> file]
    /\ UNCHANGED feeder_names

load_from_json ==
    /\ RunningRegistry("registry")
    /\ RegistryStep("load", "", "", "", load_from_json_result(feeders, file))

save_to_json(io) ==
    /\ RunningRegistry("registry")
    /\ RegistryStep("save", "", "", io, save_to_json_result(feeders, file, io))

clone_feeder(current_feeder_id, new_feeder_id, io) ==
    /\ RunningRegistry("registry")
    /\ Len(feeders.list) <= MaxFeeders
    /\ RegistryStep("clone", current_feeder_id, new_feeder_id, io,
                    clone_feeder_result(feeders, file, current_feeder_id,
                                        new_feeder_id, io))

delete_feeder(feeder_id) ==
    /\ RunningRegistry("registry")
    /\ RegistryStep("delete", feeder_id, "", "",
                    delete_feeder_result(feeders, file, feeder_id))

\* Feeder.adjust_angle on a feeder of the registry (picked as in
\* select_feeder_by_index), lines 150-151: its unset _current_angle becomes 180.
adjust_selected_feeder(index) ==
    /\ RunningRegistry("registry")
    /\ feeders.loaded
    /\ index \in 1 .. Len(feeders.list)
    /\ RegistryStep("adjust", "", "", "",
           Result([feeders EXCEPT !.list[index]["_current_angle"] =
                       IF @ = NoAngle THEN 180 ELSE @],
                  file, "none", "none"))

\* The process ends and a new one starts: the class attribute is None again
\* (line 23), the file stays.
Restart ==
    /\ RunningRegistry("registry")
    /\ feeders.loaded
    /\ RegistryStep("start", "", "", "", Result(NoFeeders, file, "none", "none"))

NextRegistry ==
    \/ load_from_json
    \/ \E io \in IOs : save_to_json(io)
    \/ \E c \in Ids, n \in Ids, io \in IOs : clone_feeder(c, n, io)
    \/ \E id \in Ids : delete_feeder(id)
    \/ \E i \in 1 .. MaxFeeders : adjust_selected_feeder(i)
    \/ Restart

----------------------------------------------------------------------------
(* feeder_tuner.py: the registry FeederControl.feeder_names and its file *)

\* The attributes of a feeder of feeder_tuner.py; its class has no transient
\* attribute.  Feeder(), lines 27-40: every attribute is None.
TunerFeeder(id, advance_angle) == ("id" :> id) @@ ("advance_angle" :> advance_angle)
BlankFeeder == TunerFeeder("", NoAngle)

\* Feeder.from_dictionary, lines 46-51: a blank feeder whose __dict__ is
\* updated with the data.
tuner_from_dictionary(data) == data @@ BlankFeeder

\* self.feeder_names = {} (line 61).
NoNames == <<>>

\* One member of the JSON object the tuner's file holds.
Entry(name, id, advance_angle) == [name |-> name, data |-> TunerFeeder(id, advance_angle)]

\* Files the tuner is started with: none, one that is not JSON, and objects
\* of one and of two feeders.
TunerFiles == {MissingFile, MalformedFile,
               Document(<<Entry("a", "a", 120)>>),
               Document(<<Entry("a", "a", 120), Entry("b", "b", 45)>>)}

\* FeederControl.load_feeders_from_file, lines 69-77: every member of the
\* file is put under its name; only FileNotFoundError is caught.
load_feeders_from_file_result(names, f) ==
    CASE f.kind = "missing" -> Result(names, f, "none", "notfound")
      [] f.kind = "malformed" -> Result(names, f, "JSONDecodeError", "none")
      [] OTHER ->
           LET read == {f.records[i].name : i \in 1 .. Len(f.records)}
               data(n) == f.records[CHOOSE i \in 1 .. Len(f.records) :
                                        f.records[i].name = n].data
           IN Result([n \in (DOMAIN names) \cup read |->
                         IF n \in read THEN tuner_from_dictionary(data(n))
                         ELSE names[n]],
                     f, "none", "none")

\* FeederControl.save_feeders_to_file, lines 64-67: the comprehension
\* iterates self.feeder_names.items, a method that was not called, which
\* raises TypeError before the file is opened.
save_feeders_to_file_result(names, f) == Result(names, f, "TypeError", "none")

\* FeederControl.create_new_feeder, lines 79-93: a copy of the feeder named,
\* or a blank feeder, is stored under the id typed.
create_new_feeder_result(names, f, copy_id, new_id) ==
    LET new_feeder == IF DOMAIN names # {} /\ copy_id \in DOMAIN names
                      THEN names[copy_id] ELSE BlankFeeder
    IN Result((new_id :> [new_feeder EXCEPT !["id"] = new_id]) @@ names,
              f, "none", "created")

\* FeederControl.edit_feeder, lines 95-109: each attribute gets what was
\* typed, or keeps its value on an empty line.  typed_id is the line typed
\* for the id; the other lines are left empty.
edit_feeder_result(names, f, feeder_id, typed_id) ==
    IF feeder_id = "None" THEN Result(names, f, "none", "noselection")
    ELSE IF feeder_id \notin DOMAIN names THEN Result(names, f, "none", "notfound")
    ELSE Result([names EXCEPT ![feeder_id]["id"] = IF typed_id = "" THEN @ ELSE typed_id],
                f, "none", "updated")

\* An operation of the tuner's registry has run with the result res.
CatalogStep(op, a, b, res) ==
    /\ feeder_names' = res.feeders
    /\ file' = res.file
    /\ reg' = [op |-> op, a |-> a, b |-> b, io |-> "", raised |-> res.raised,
               logged |-> res.logged, was |-> feeder_names, file_was |-> file]
    /\ UNCHANGED feeders

load_feeders_from_file ==
    /\ RunningRegistry("catalog")
    /\ CatalogStep("load", "", "", load_feeders_from_file_result(feeder_names, file))

save_feeders_to_file ==
    /\ RunningRegistry("catalog")
    /\ CatalogStep("save", "", "", save_feeders_to_file_result(feeder_names, file))

create_new_feeder(copy_id, new_id) ==
    /\ RunningRegistry("catalog")
    /\ CatalogStep("create", copy_id, new_id,
                create_new_feeder_result(feeder_names, file, copy_id, new_id))

edit_feeder(feeder_id, typed_id) ==
    /\ RunningRegistry("catalog")
    /\ CatalogStep("edit", feeder_id, typed_id,
                edit_feeder_result(feeder_names, file, feeder_id, typed_id))

NextCatalog ==
    \/ load_feeders_from_file
    \/ save_feeders_to_file
    \/ \E c \in Ids \cup {""}, n \in Ids : create_new_feeder(c, n)
    \/ \E id \in Ids \cup {"None"}, t \in Ids \cup {""} : edit_feeder(id, t)

\* The registries at the start of their programs, and the file found there.
InitRegistry ==
    /\ feeders = NoFeeders
    /\ feeder_names = NoNames
    /\ reg = NoReg
    /\ file \in (CASE prog = "registry" -> Files
                   [] prog = "catalog" -> TunerFiles
                   [] OTHER -> {MissingFile})

\* The other programs' variables at their start: feeder_tuner.py lines 56-60,
\* feeder_tweaker.py line 12, feeder.py line 43.
InitTools ==
    /\ feeder_enabled = FALSE
    /\ servo_angle = 90
    /\ current_angle = 180
    /\ feeder_angle = NoAngle
    /\ last = NoLast
    /\ instr = <<>>
    /\ applied = TRUE

\* No function is being applied to a drawn argument.
NoInput == [fn |-> "none", arg |-> <<>>]
NoOutput == [raised |-> "none", value |-> <<>>]

InitData ==
    /\ input = NoInput
    /\ output = NoOutput

\* feeder_tuner.py line 55 and feeder_tweaker.py line 11: no address is
\* selected; the program is in its main menu.
NoJog == [active |-> FALSE, command_mode |-> TRUE, input_buffer |-> <<>>, key |-> ""]
NoAddress == <<>>

InitMenu ==
    /\ feeder_address = NoAddress
    /\ jog = NoJog

----------------------------------------------------------------------------
Programs == {"controller", "tuner", "tweaker", "feeder", "registry", "catalog"}

\* The tweaker's main_menu opens the port named on the command line, if any,
\* before the first menu; the other programs start without a port.
Init ==
    /\ prog \in Programs
    /\ InitController
    /\ InitTools
    /\ InitRegistry
    /\ InitData
    /\ InitMenu
    /\ serial_port \in (IF prog = "tweaker" THEN {"None", "open"} ELSE {"None"})

Next ==
    \/ NextController
    \/ NextTuner
    \/ NextTweaker
    \/ NextFeeder
    \/ NextRegistry
    \/ NextCatalog

Spec == Init /\ [][Next]_vars

\* The angle rule applied once: a program, a current angle it can be at and an
\* instruction are drawn, and the program's angle-adjusting code runs on them.
\* A Feeder's _current_angle is only ever None or 180 (feeder.py lines 43, 151).
InitApply ==
    /\ prog \in {"tuner", "tweaker", "feeder"}
    /\ InitController
    /\ serial_port \in (IF prog = "tweaker" THEN {"None", "open"} ELSE {"None"})
    /\ feeder_enabled = FALSE
    /\ servo_angle \in (IF prog = "tuner" THEN StartAngles ELSE {90})
    /\ current_angle \in (IF prog = "tweaker" THEN StartAngles ELSE {180})
    /\ feeder_angle \in (IF prog = "feeder" THEN {NoAngle, 180} ELSE {NoAngle})
    /\ last = NoLast
    /\ instr \in Instructions
    /\ applied = FALSE
    /\ InitRegistry
    /\ InitData
    /\ InitMenu

ApplyTweaker ==
    /\ RunningTool("tweaker")
    /\ ~applied
    /\ adjust_angle(instr)
    /\ applied' = TRUE
    /\ UNCHANGED instr

ApplyTuner ==
    /\ RunningTool("tuner")
    /\ ~applied
    /\ drive_servo(instr)
    /\ applied' = TRUE
    /\ UNCHANGED instr

ApplyFeeder ==
    /\ RunningTool("feeder")
    /\ ~applied
    /\ Feeder_adjust_angle(instr)
    /\ applied' = TRUE
    /\ UNCHANGED instr

NextApply ==
    \/ ApplyTweaker
    \/ ApplyTuner
    \/ ApplyFeeder

SpecApply == InitApply /\ [][NextApply]_vars

\* The controller alone, with the scheduling the code guarantees: readline()
\* returns within the port's timeout (timeout=1, line 139) or raises, and a
\* call that has its answer returns.
FairInit == Init /\ prog = "controller"

FairSpec ==
    /\ FairInit
    /\ [][NextController]_vars
    /\ WF_vars(ReadLine \/ ReadTimeout \/ ReadError)
    /\ WF_vars(Return)

----------------------------------------------------------------------------
(* parse.py, and the functions of feeder_controller.py applied to data *)

\* One parameter of an M620 line: its letter ("" if it has none) and number.
Tok(l, v) == [letter |-> l, num |-> v]

\* The parameters of the M620 lines of parse.py lines 34-35, with X as given.
ExampleParams(x) ==
    <<Tok("A", 180), Tok("B", 125), Tok("C", 56), Tok("F", 4),
      Tok("U", 480), Tok("V", 500), Tok("W", 2500), Tok("X", x)>>

\* The same numbers without their letters.
BareParams(x) == [i \in 1 .. 8 |-> Tok("", ExampleParams(x)[i].num)]

\* The lines of a dump: "BoardAddr:<n>", "ok ...", "M620 N<n> <params>".
BoardAddrLine(n) == [kind |-> "BoardAddr", n |-> n, params |-> <<>>]
OkLine == [kind |-> "ok", n |-> 0, params |-> <<>>]
M620Line(n, params) == [kind |-> "M620", n |-> n, params |-> params]

DumpLines ==
    {BoardAddrLine(0), BoardAddrLine(1), OkLine,
     M620Line(0, ExampleParams(1)), M620Line(1, ExampleParams(1)),
     M620Line(1, ExampleParams(0)), M620Line(0, BareParams(1)),
     M620Line(1, BareParams(0))}

\* The dumps handed to the parsers.
Dumps == UNION {[1 .. n -> DumpLines] : n \in 0 .. MaxLines}

\* dict.get(key, default).
Get(d, key, default) == IF key \in DOMAIN d THEN d[key] ELSE default

\* float(value) and int(value) on a parameter raise ValueError unless the
\* parameter is a bare number.
IsNumber(tok) == tok.letter = ""

\* parse_m620_lines, lines 20-22.
param_names ==
    <<"advance_angle", "half_advance_angle", "retract_angle", "feed_length",
      "settle_time", "pulsewidth_at_0", "pulsewidth_at_180", "ignore_feedback_pin">>

\* parse_m620_lines, lines 23-26, on the parameters of one line that are all
\* bare numbers: the dictionary of the line.
params_dict(params) ==
    [name \in {param_names[i] : i \in 1 .. 8} |->
        IF name = "ignore_feedback_pin"
        THEN params[Len(params)].num = 1
        ELSE LET i == CHOOSE j \in 1 .. 8 : param_names[j] = name
             IN params[i].num]

\* parse_m620_lines, lines 11-29, after the first i lines: the dictionary so
\* far, keyed by the number in f"N{position}", or the error raised.
RECURSIVE parse_m620_loop(_, _)
parse_m620_loop(lines, i) ==
    IF i = 0 THEN [raised |-> "none", value |-> <<>>]
    ELSE LET st == parse_m620_loop(lines, i - 1)
             line == lines[i]
             position == line.n * 100
         IN IF st.raised # "none" \/ line.kind # "M620" THEN st
            ELSE IF \E j \in 1 .. Len(line.params) : ~IsNumber(line.params[j])
                 THEN [raised |-> "ValueError", value |-> <<>>]
                 ELSE [raised |-> "none",
                       value |-> [k \in DOMAIN st.value \cup {position} |->
                                     IF k = position THEN params_dict(line.params)
                                     ELSE st.value[k]]]

parse_m620_lines(lines) == parse_m620_loop(lines, Len(lines))

\* re.match(r"^M620 N(\d+) ([A-Z])(.*)$", line), line 69: the first
\* parameter must begin with a capital letter.
re_match(line) == line.params # <<>> /\ line.params[1].letter # ""

\* parse_m621_output, lines 72-73: group 3 split at blanks is the first
\* parameter without its letter, then the other parameters as they stand.
param_value(line) ==
    [j \in 1 .. Len(line.params) |->
        IF j = 1 THEN Tok("", line.params[1].num) ELSE line.params[j]]

\* The flush as it would be if only a board with positions were appended.
flush_with_positions(boards, current_board) ==
    IF "positions" \in DOMAIN current_board THEN Append(boards, current_board)
    ELSE boards

\* parse_m621_output, lines 59-60 and 64-65: a current_board that is not the
\* empty dictionary is appended.
flush(boards, current_board) ==
    IF DOMAIN current_board # {} THEN Append(boards, current_board) ELSE boards

\* parse_m621_output, line 74: setdefault("positions", {})[position] = entry.
set_position(current_board, position, entry) ==
    LET old == Get(current_board, "positions", <<>>)
        new == [k \in DOMAIN old \cup {position} |->
                   IF k = position THEN entry ELSE old[k]]
    IN [k \in DOMAIN current_board \cup {"positions"} |->
           IF k = "positions" THEN new ELSE current_board[k]]

\* parse_m621_output, lines 54-77, after the first i lines of the dump.
RECURSIVE parse_m621_loop(_, _)
parse_m621_loop(lines, i) ==
    IF i = 0 THEN [boards |-> <<>>, current_board |-> <<>>]
    ELSE LET st == parse_m621_loop(lines, i - 1)
             line == lines[i]
         IN CASE line.kind = "BoardAddr" ->
                    [boards |-> flush(st.boards, st.current_board),
                     current_board |-> ("board_id" :> line.n)]
              [] line.kind = "ok" ->
                    [boards |-> flush(st.boards, st.current_board),
                     current_board |-> <<>>]
              [] line.kind = "M620" /\ re_match(line) ->
                    [boards |-> st.boards,
                     current_board |->
                         set_position(st.current_board, line.n,
                                      [param_code |-> line.params[1].letter,
                                       param_value |-> param_value(line)])]
              [] OTHER -> st

\* parse_m621_output, lines 43-79: the list returned.  A board still being
\* collected when the lines end is not in it.
parse_m621_output(lines) ==
    [raised |-> "none", value |-> parse_m621_loop(lines, Len(lines)).boards]

\* The fields of a position entry of feeder_controller.json and the values
\* the entries drawn here persist for them.
PositionKeys ==
    {"feeder_id", "advance_angle", "half_advance_angle", "retract_angle",
     "default_feed_length", "settle_time"}

Persisted(key) ==
    CASE key = "advance_angle" -> 90
      [] key = "half_advance_angle" -> 30
      [] key = "retract_angle" -> 10
      [] key = "default_feed_length" -> 2
      [] key = "settle_time" -> 100
      [] OTHER -> "a"

\* The position entries: any of the fields may be absent.
PositionData == {[k \in K |-> Persisted(k)] : K \in SUBSET PositionKeys}

\* The position ids of a board_config.
ConfigPositions == {0, 1}

\* The "positions" of a board_config.
BoardConfigs == UNION {[P -> PositionData] : P \in SUBSET ConfigPositions}

\* BoardPosition.__init__, lines 11-21: the attributes of the new position.
\* Line 21 sets feeder_id to None whatever the argument.
BoardPosition_init_attrs(advance_angle, half_advance_angle, retract_angle, default_feed_length, settle_time, enabled, feeder_id) ==
    [current_angle |-> NoAngle,
     advance_angle |-> advance_angle,
     half_advance_angle |-> half_advance_angle,
     retract_angle |-> retract_angle,
     default_feed_length |-> default_feed_length,
     settle_time |-> settle_time,
     enabled |-> enabled,
     feeder_id |-> "None"]

\* FeederBoard.__init__, lines 54-64: the positions of the new board.
FeederBoard_init(board_positions) ==
    [p \in DOMAIN board_positions |->
        LET position_data == board_positions[p]
        IN BoardPosition_init_attrs(Get(position_data, "advance_angle", 120),
                                    Get(position_data, "half_advance_angle", 60),
                                    Get(position_data, "retract_angle", 45),
                                    Get(position_data, "default_feed_length", 4),
                                    Get(position_data, "settle_time", 200),
                                    FALSE,
                                    Get(position_data, "feeder_id", "None"))]

\* The handlers a table can hold: the callbacks of the controller and one
\* more callable, the bound method generic_callback.
DataCallbacks == Callbacks \cup {"generic_callback"}

\* The calls of register_command_callback drawn.
Registrations ==
    [table : [Cmds -> (DataCallbacks \ {"notcallable"}) \cup {"none"}],
     command : Cmds, callback : DataCallbacks]

\* The angles given to Feeder.__init__ or found in a file: None, angles in
\* 0..359 and angles beyond.
DataAngles == {NoAngle, 0, 45, 359, 360, 400}

\* The arguments of Feeder(...) and of Feeder.from_dictionary(data).
FeederArgs == [id : Ids, advance_angle : DataAngles]
FeederDicts == {("id" :> i) @@ ("advance_angle" :> a) : i \in Ids, a \in DataAngles}

\* The names class Feeder of feeder_tweaker.py defines (lines 33-97).
tweaker_Feeder_names ==
    {"__init__", "to_dictionary", "from_dictionary", "_normalize_angle",
     "advance_angle", "half_advance_angle", "retract_angle", "settle_time"}

\* feeder_tweaker.py Feeder.__init__, lines 33-48: line 39 assigns
\* self.advance_angle, which runs the setter of lines 70-72, and the setter
\* calls Feeder.normalize_angle.
tweaker_Feeder_init ==
    IF "normalize_angle" \in tweaker_Feeder_names
    THEN [raised |-> "none", value |-> ("id" :> "None") @@ ("advance_angle" :> NoAngle)]
    ELSE [raised |-> "AttributeError", value |-> <<>>]

\* The function applied and its argument, by the module it is in.
DataInputs(p) ==
    CASE p = "parse" ->
            [fn : {"parse_m620_lines", "parse_m621_output"}, arg : Dumps]
      [] p = "feeder" ->
            [fn : {"Feeder"}, arg : FeederArgs]
            \cup [fn : {"from_dictionary"}, arg : FeederDicts]
      [] p = "tweaker" ->
            [fn : {"tweaker.Feeder"}, arg : {<<>>}]
      [] OTHER ->
            [fn : {"register_command_callback"}, arg : Registrations]
            \cup [fn : {"FeederBoard"}, arg : BoardConfigs]

InitApplyData ==
    /\ prog \in {"controller", "parse", "feeder", "tweaker"}
    /\ InitController
    /\ serial_port = "None"
    /\ feeder_enabled = FALSE
    /\ servo_angle = 90
    /\ current_angle = 180
    /\ feeder_angle = NoAngle
    /\ last = NoLast
    /\ instr = <<>>
    /\ applied = FALSE
    /\ InitRegistry
    /\ input \in DataInputs(prog)
    /\ output = NoOutput
    /\ InitMenu

\* The function drawn is applied to its argument.
Applies(fn, result) ==
    /\ input.fn = fn
    /\ ~applied
    /\ applied' = TRUE
    /\ output' = result
    /\ UNCHANGED <<prog, ctlVars, feeder_enabled, servo_angle, current_angle,
                   feeder_angle, last, instr, input>>
    /\ UNCHANGED regVars
    /\ UNCHANGED menuVars

CallRegisterCommandCallback ==
    /\ prog = "controller"
    /\ Applies("register_command_callback",
               register_command_callback_result(input.arg.table, input.arg.command,
                                                input.arg.callback))

CallFeederBoard ==
    /\ prog = "controller"
    /\ Applies("FeederBoard", [raised |-> "none", value |-> FeederBoard_init(input.arg)])

CallParseM620Lines ==
    /\ prog = "parse"
    /\ Applies("parse_m620_lines", parse_m620_lines(input.arg))

CallParseM621Output ==
    /\ prog = "parse"
    /\ Applies("parse_m621_output", parse_m621_output(input.arg))

CallFeeder ==
    /\ prog = "feeder"
    /\ Applies("Feeder",
               [raised |-> "none",
                value |-> Feeder_init(input.arg.id, input.arg.advance_angle)])

CallFromDictionary ==
    /\ prog = "feeder"
    /\ Applies("from_dictionary",
               [raised |-> "none", value |-> from_dictionary(input.arg)])

CallTweakerFeeder ==
    /\ prog = "tweaker"
    /\ Applies("tweaker.Feeder", tweaker_Feeder_init)

NextData ==
    \/ CallFeeder
    \/ CallFromDictionary
    \/ CallTweakerFeeder
    \/ CallRegisterCommandCallback
    \/ CallFeederBoard
    \/ CallParseM620Lines
    \/ CallParseM621Output

\* One function of parse.py or feeder_controller.py applied once to a drawn
\* argument.
SpecData == InitApplyData /\ [][NextData]_vars

----------------------------------------------------------------------------
(* The menus of feeder_tuner.py and feeder_tweaker.py *)

\* The lines typed at the address prompt.
TypedAddresses ==
    {<<"0", "0", "0">>, <<"0", "1", "2">>, <<"0", "1", "3">>, <<"4", "1", "2">>,
     <<"1", "0", "0">>, <<"1", "1", "1">>, <<"1", "1", "2">>, <<"5", "0", "0">>,
     <<"5", "1", "1">>, <<"1", "2">>, <<"0", "0", "0", "1">>, <<"x", "0", "0">>, <<>>}

\* feeder_tweaker.py line 199: re.match(r"^[0-4](0[0-9]|1[0-2])$", address).
tweaker_address_match(address) ==
    /\ Len(address) = 3
    /\ address[1] \in {"0", "1", "2", "3", "4"}
    /\ \/ address[2] = "0" /\ address[3] \in DigitChars
       \/ address[2] = "1" /\ address[3] \in {"0", "1", "2"}

\* feeder_tuner.py line 243: re.match(r"^[1-5][0-9]{2}$", address) and
\* 0 <= int(address[1:]) <= 11.
tuner_address_match(address) ==
    /\ Len(address) = 3
    /\ address[1] \in {"1", "2", "3", "4", "5"}
    /\ address[2] \in DigitChars
    /\ address[3] \in DigitChars
    /\ NatVal(<<address[2], address[3]>>) <= 11

\* One of the two menu programs is running: the controller, the registry
\* and the data functions stay as they are.
RunningMenu(p) ==
    /\ prog = p
    /\ UNCHANGED <<prog, pc, cur, nsent, device, inbuf, response, ret, outcome,
                   dispatched, outstanding, command_callbacks, positions, before>>
    /\ UNCHANGED regVars
    /\ UNCHANGED dataVars
    /\ UNCHANGED <<instr, applied>>

\* feeder_tweaker.py select_feeder_address, lines 194-204 (main menu "1").
tweaker_select_feeder_address(address) ==
    /\ RunningMenu("tweaker")
    /\ ~jog.active
    /\ feeder_address' = IF tweaker_address_match(address) THEN address
                         ELSE feeder_address
    /\ last' = [NoLast EXCEPT !.op = "select", !.instr = address]
    /\ UNCHANGED <<serial_port, feeder_enabled, servo_angle, current_angle,
                   feeder_angle, jog>>

\* feeder_tuner.py select_feeder_address, lines 239-247 (main menu "1"): an
\* address that is accepted is stored and check_feeder (lines 217-228) sends
\* M602.
tuner_select_feeder_address(address, reply) ==
    /\ RunningMenu("tuner")
    /\ IF tuner_address_match(address)
       THEN /\ feeder_address' = address
            /\ last' = [NoLast EXCEPT !.op = "select", !.instr = address,
                                      !.cmd = "M602",
                                      !.resp = tuner_send_command(serial_port, reply)]
       ELSE /\ feeder_address' = feeder_address
            /\ last' = [NoLast EXCEPT !.op = "select", !.instr = address]
    /\ UNCHANGED <<serial_port, feeder_enabled, servo_angle, current_angle,
                   feeder_angle, jog>>

\* feeder_tweaker.py main_menu choice "4", lines 339-340: jog_windows starts
\* in command mode with an empty buffer (lines 208-213).
main_menu_jog ==
    /\ RunningMenu("tweaker")
    /\ ~jog.active
    /\ jog' = [active |-> TRUE, command_mode |-> TRUE, input_buffer |-> <<>>,
               key |-> ""]
    /\ UNCHANGED <<serial_port, feeder_enabled, servo_angle, current_angle,
                   feeder_angle, last, feeder_address>>

\* The keys pressed in jog mode; "Enter" is '\r', "Backspace" is '\x08' and
\* "x" a key that means nothing.
JogKeys == {"e", "E", "h", ">", "<", "o", "1", "+", "Enter", "Backspace", "x"}

\* key.lower().
lower(key) == IF key = "E" THEN "e" ELSE IF key = "H" THEN "h" ELSE key

\* key in '.,<>ofhrFHR', line 224.
SingleKeys == {".", ",", "<", ">", "o", "f", "h", "r", "F", "H", "R"}

\* key.isdigit(), and key in '+-'.
isdigit(key) == key \in DigitChars
IsSign(key) == key \in {"+", "-"}

\* input_buffer[:-1].
DropLast(buffer) == IF buffer = <<>> THEN buffer ELSE SubSeq(buffer, 1, Len(buffer) - 1)

\* jog_windows, lines 219-230: one key in command mode.  For 'e' the loop
\* prints "Exiting jog mode." and goes on.
jog_command_key(key) ==
    IF lower(key) = "e" \/ lower(key) = "h"
    THEN /\ jog' = [jog EXCEPT !.key = key]
         /\ UNCHANGED <<serial_port, feeder_enabled, servo_angle, current_angle,
                        feeder_angle, last>>
    ELSE IF key \in SingleKeys
    THEN /\ jog' = [jog EXCEPT !.key = key]
         /\ handle_command_body(key)
    ELSE IF isdigit(key) \/ IsSign(key)
    THEN /\ jog' = [jog EXCEPT !.key = key, !.command_mode = FALSE,
                               !.input_buffer = Append(jog.input_buffer, key)]
         /\ UNCHANGED <<serial_port, feeder_enabled, servo_angle, current_angle,
                        feeder_angle, last>>
    ELSE /\ jog' = [jog EXCEPT !.key = key]
         /\ UNCHANGED <<serial_port, feeder_enabled, servo_angle, current_angle,
                        feeder_angle, last>>

\* jog_windows, lines 231-245: one key in numeric input mode.
\* handle_numeric_input (lines 282-284) only prints.
jog_numeric_key(key) ==
    /\ jog' = IF key = "Enter"
              THEN [jog EXCEPT !.key = key, !.input_buffer = <<>>,
                               !.command_mode = TRUE]
              ELSE IF isdigit(key) \/ (IsSign(key) /\ jog.input_buffer = <<>>)
              THEN [jog EXCEPT !.key = key,
                               !.input_buffer = Append(jog.input_buffer, key)]
              ELSE IF key = "Backspace"
              THEN [jog EXCEPT !.key = key,
                               !.input_buffer = DropLast(jog.input_buffer)]
              ELSE [jog EXCEPT !.key = key, !.input_buffer = <<>>,
                               !.command_mode = TRUE]
    /\ UNCHANGED <<serial_port, feeder_enabled, servo_angle, current_angle,
                   feeder_angle, last>>

\* jog_windows, lines 215-245: a key is pressed while the loop runs.  The
\* buffer is kept to MaxLen characters.
jog_windows(key) ==
    /\ RunningMenu("tweaker")
    /\ jog.active
    /\ Len(jog.input_buffer) < MaxLen \/ ~(isdigit(key) \/ IsSign(key))
    /\ IF jog.command_mode THEN jog_command_key(key) ELSE jog_numeric_key(key)
    /\ UNCHANGED feeder_address

NextMenu ==
    \/ \E a \in TypedAddresses : tweaker_select_feeder_address(a)
    \/ \E a \in TypedAddresses, r \in TunerReplies : tuner_select_feeder_address(a, r)
    \/ \E ok \in BOOLEAN : tuner_open_serial_port(ok)
    \/ main_menu_jog
    \/ \E k \in JogKeys : jog_windows(k)

InitMenuSpec == Init /\ prog \in {"tuner", "tweaker"}

\* The two menu programs: address selection and the jog loop.
SpecMenu == InitMenuSpec /\ [][NextMenu]_vars

\* The controller alone, sending M621 among its commands.
SpecDump == FairInit /\ [][NextDump]_vars

\* The controller alone from construction to exit, with explicit closes.
SpecShutdown == FairInit /\ [][NextShutdown]_vars

----------------------------------------------------------------------------
(* The claims *)

\* No exchange is in progress.
Idle == pc \in {"init", "opened", "idle"}

\* A blocked send_command returns in this step.
Returns == pc \in {"matched", "timedout", "aborted"} /\ pc' = "idle"

\* C1: a send that read nothing before the timeout reports Timeout to its
\* caller, and what it reports differs from what a successful send reports.
C1_TimeoutReported ==
    (pc = "idle" /\ outcome = "timeout")
        => (ret = "Timeout" /\ ret # SendReturn("matched"))

\* C2: the line a send consumes as its response is the device's reply to the
\* command that send wrote, never the late reply to an earlier command.
C2_ResponseAnswersCommand ==
    pc = "matched" => response.tag = cur.seq

PhaseOrder ==
    pc' # pc =>
        CASE pc = "awaiting" -> pc' \in {"matched", "timedout", "aborted"}
          [] pc \in {"matched", "timedout", "aborted"} -> pc' = "idle"
          [] pc = "init" -> pc' \in {"opened", "idle"}
          [] OTHER -> pc' \in {"awaiting", "aborted"}

C5_EnabledOnlyAfterConfirm ==
    [][\A p \in Positions :
          (~positions[p].enabled /\ positions'[p].enabled)
              => (/\ Returns
                  /\ pc = "matched"
                  /\ cur.caller = "setter"
                  /\ cur.pos = p
                  /\ cur.cmd = "M610S1"
                  /\ response.text = "ok")]_vars

C7_AngleKeptUnlessConfirmed ==
    (prog = "tweaker" /\ last.op = "adjust" /\ last.cmd = "M603" /\ last.resp # "ok")
        => current_angle = last.prev

\* C8: a send that ends in a timeout or a transport error returns with the
\* positions (their enabled flags and current angles) and the handler table
\* as they were when it was entered, and with the port still open, so that
\* the next send is not refused.
C8_FailedSendFrame ==
    [][(Returns /\ pc \in {"timedout", "aborted"})
          => (/\ positions' = before.positions
              /\ command_callbacks' = before.command_callbacks
              /\ serial_port' = "open")]_vars

\* C8's case: a send failed, and the next command has been written on the
\* same port.
C8_SendAfterFailure ==
    /\ pc = "awaiting"
    /\ outcome \in {"timeout", "exception"}
    /\ cur.seq = nsent

\* C9: every stored servo angle, and every angle an adjustment yields, is an
\* integer from 0 to 359.
C9_AngleInRange ==
    /\ current_angle \in 0 .. 359
    /\ servo_angle \in 0 .. 359
    /\ feeder_angle \in {NoAngle} \cup (0 .. 359)
    /\ (last.op = "adjust" /\ prog = "feeder") => feeder_angle \in 0 .. 359
    /\ (last.op = "adjust" /\ last.kind = "ok") => last.value \in 0 .. 359

\* C9's case: a relative move whose raw sum left the range was applied.
C9_RelativeMoveWrapped ==
    /\ last.op = "adjust"
    /\ last.kind = "ok"
    /\ StartsWithSign(last.instr)
    /\ last.prev + PyInt(last.instr).val < 0

\* C10: at every angle-adjusting place, applying str(a) for an integer a >= 0
\* yields a mod 360, whatever the current angle is.
C10_AbsoluteYieldsNormalized ==
    (applied /\ IsDigits(instr) /\ instr = PyStr(NatVal(instr)))
        => (last.kind = "ok" /\ last.value = NatVal(instr) % 360)

\* The angle a program keeps between adjustments.
StoredAngle ==
    CASE prog = "tweaker" -> current_angle
      [] prog = "tuner" -> servo_angle
      [] OTHER -> feeder_angle

\* C11: applying a sign followed by digits d at the current angle c yields
\* (c + d) mod 360 for "+" and (c - d) mod 360 for "-", and the result is the
\* angle kept for the next adjustment.
C11_RelativeYieldsAndStores ==
    (applied /\ StartsWithSign(instr) /\ IsDigits(Tail(instr)))
        => LET d == NatVal(Tail(instr))
               expected == IF instr[1] = "+" THEN (last.prev + d) % 360
                           ELSE (last.prev - d) % 360
           IN /\ last.kind = "ok"
              /\ last.value = expected
              /\ StoredAngle = expected

\* C12: applying an instruction that is no number after its optional sign
\* ends in the not-a-number outcome (the ValueError of the conversion), keeps
\* the current angle and sends no set-angle command.
C12_NotANumberRejected ==
    (applied /\ ~PyInt(instr).ok)
        => (/\ last.kind = "ValueError"
            /\ StoredAngle = last.prev
            /\ last.cmd = "none")

\* C13: saving a non-empty registry, the writing not failing, and loading
\* what was saved into a fresh registry yields the same feeders in the same
\* order with the same id and configuration.
C13_SaveLoadRoundTrip ==
    /\ (prog = "registry" /\ reg.op = "save" /\ reg.io = "ok"
            /\ reg.was.loaded /\ Len(reg.was.list) > 0)
        => LET again == load_from_json_result(NoFeeders, file)
           IN /\ reg.raised = "none"
              /\ again.raised = "none"
              /\ Len(again.feeders.list) = Len(reg.was.list)
              /\ \A i \in 1 .. Len(reg.was.list) :
                    /\ again.feeders.list[i]["id"] = reg.was.list[i]["id"]
                    /\ again.feeders.list[i]["_advance_angle"]
                           = reg.was.list[i]["_advance_angle"]
    /\ (prog = "catalog" /\ reg.op = "save" /\ DOMAIN reg.was # {})
        => LET again == load_feeders_from_file_result(NoNames, file)
           IN /\ reg.raised = "none"
              /\ again.raised = "none"
              /\ again.feeders = reg.was

\* C14: a clone of a present source to an absent new id adds exactly one
\* feeder, at the end: the feeders that were there are unchanged, the new one
\* has the new id and the source's configuration, and, the writing not
\* failing, the saved file loads to the same registry.
C14_CloneAddsOne ==
    (prog = "registry" /\ reg.op = "clone" /\ reg.was.loaded
        /\ HasId(reg.was.list, reg.a) /\ ~HasId(reg.was.list, reg.b))
        => LET n == Len(reg.was.list)
               src == FirstWithId(reg.was.list, reg.a)
           IN /\ reg.raised = "none"
              /\ feeders.loaded
              /\ Len(feeders.list) = n + 1
              /\ SubSeq(feeders.list, 1, n) = reg.was.list
              /\ feeders.list[n + 1]["id"] = reg.b
              /\ feeders.list[n + 1]["_advance_angle"]
                     = reg.was.list[src]["_advance_angle"]
              /\ reg.io = "ok"
                    => IdsOf(load_from_json_result(NoFeeders, file).feeders.list)
                           = IdsOf(feeders.list)

\* C15: a clone to a new id that a feeder of the registry already has ends
\* in the duplicate-id outcome, whether or not the source exists, and leaves
\* the registry and the file as they were.
C15_CloneDuplicateRejected ==
    (prog = "registry" /\ reg.op = "clone" /\ reg.was.loaded
        /\ HasId(reg.was.list, reg.b))
        => (/\ reg.raised = "none"
            /\ reg.logged = "duplicate"
            /\ feeders = reg.was
            /\ file = reg.file_was)

\* C15's case: the new id was taken and the source id was not in the
\* registry: the duplicate was reported, not the missing source.
C15_DuplicateBeforeSource ==
    /\ prog = "registry"
    /\ reg.op = "clone"
    /\ reg.logged = "duplicate"
    /\ HasId(reg.was.list, reg.b)
    /\ ~HasId(reg.was.list, reg.a)

\* C16: deleting an id of the registry leaves no feeder with that id and
\* every other feeder in place; deleting an absent id ends in the not-found
\* outcome and leaves the registry as it was.
C16_DeleteRemoves ==
    (prog = "registry" /\ reg.op = "delete" /\ reg.was.loaded)
        => IF HasId(reg.was.list, reg.a)
           THEN /\ ~HasId(feeders.list, reg.a)
                /\ \A i \in 1 .. Len(reg.was.list) :
                      reg.was.list[i]["id"] # reg.a
                          => \E j \in 1 .. Len(feeders.list) :
                                feeders.list[j] = reg.was.list[i]
           ELSE /\ reg.logged = "notfound"
                /\ feeders = reg.was

\* C17: no two feeders of a registry have the same id.
C17_IdsUnique ==
    /\ \A i, j \in 1 .. Len(feeders.list) :
          i # j => feeders.list[i]["id"] # feeders.list[j]["id"]
    /\ \A m, n \in DOMAIN feeder_names :
          m # n => feeder_names[m]["id"] # feeder_names[n]["id"]

\* C18: creating a feeder under an id the registry already has ends in the
\* duplicate-id outcome and leaves the registry, the feeder of that id
\* included, as it was.
C18_CreateDuplicateRejected ==
    (prog = "catalog" /\ reg.op = "create" /\ reg.b \in DOMAIN reg.was)
        => (/\ reg.logged = "duplicate"
            /\ feeder_names = reg.was)

\* C19: a load raises nothing; a missing or malformed file read into a
\* registry that held nothing leaves an empty registry; and loading once
\* more yields the registry the load left.
C19_LoadNeverFails ==
    /\ (prog = "registry" /\ reg.op = "load")
        => (/\ reg.raised = "none"
            /\ feeders.loaded
            /\ (~reg.was.loaded /\ reg.file_was.kind \in {"missing", "malformed"})
                  => feeders.list = <<>>
            /\ load_from_json_result(feeders, file).feeders = feeders)
    /\ (prog = "catalog" /\ reg.op = "load")
        => (/\ reg.raised = "none"
            /\ (DOMAIN reg.was = {} /\ reg.file_was.kind \in {"missing", "malformed"})
                  => DOMAIN feeder_names = {}
            /\ load_feeders_from_file_result(feeder_names, file).feeders = feeder_names)

Range(f) == {f[i] : i \in DOMAIN f}

\* C21: a send on an engine whose transport is absent or not open fails as
\* not connected and writes nothing; a send on an open transport writes the
\* command followed by a newline and is not rejected as not connected.
C21_SendNeedsOpenPort ==
    /\ (prog = "controller" /\ pc = "idle" /\ outcome = "notconnected")
           => serial_port # "open"
    /\ (prog = "controller" /\ pc = "awaiting")
           => (serial_port = "open" /\ full_command(cur.cmd) = <<cur.cmd, "\n">>)
    /\ (prog = "tweaker" /\ last.cmd = "M603" /\ serial_port = "open")
           => last.resp \notin {"simulated", "refused"}
    /\ (prog = "tuner" /\ last.op = "enable" /\ serial_port = "open")
           => (last.resp # "notsent" /\ tuner_written(last.cmd) = <<last.cmd, "\n">>)

\* C22: when a non-empty response is read for a command with a registered
\* handler, send returns that handler's result to its caller and the generic
\* classifier is not applied; with no handler it returns the generic
\* classifier's result.
C22_ResultReturned ==
    [][(prog = "controller" /\ Returns /\ pc = "matched")
          => ret' = (IF dispatched = "handler"
                     THEN handle_m115_response(response.text)
                     ELSE generic_callback(response.text, cur.rtype))]_vars

\* C23: the generic classifier gives every non-empty response exactly one of
\* three outcomes: success for ok, failure with the message for error, and
\* unrecognized with the raw text for anything else; an unrecognized response
\* is never reported as success or failure.
C23_ThreeOutcomes ==
    /\ (prog = "controller" /\ pc = "matched" /\ dispatched = "generic"
            /\ cur.rtype = "None")
           => LET text == response.text
                  r == generic_callback(text, cur.rtype)
                  said == generic_callback_logged(text, cur.rtype)
              IN /\ startswith_ok(text) => r = "True"
                 /\ startswith_error(text) => (r = "False" /\ text \in Range(said))
                 /\ (~startswith_ok(text) /\ ~startswith_error(text))
                        => (r \notin {"True", "False"} /\ text \in Range(said))
    /\ (prog = "tuner" /\ last.op = "enable" /\ last.resp \in Texts)
           => LET said == handle_ok_response(last.resp)
              IN /\ startswith_ok(last.resp) => said[1] = "Operation successful."
                 /\ startswith_error(last.resp) => said[1] = "Operation failed."
                 /\ (~startswith_ok(last.resp) /\ ~startswith_error(last.resp))
                        => said = <<"Unexpected response.", last.resp>>

\* C25: after a successful open the first command written is M115, the
\* versions parsed from its response are kept as the engine's cached version
\* info, and an error or timeout of that exchange leaves the engine
\* constructed with the port still open.
C25_FirmwareInfoCached ==
    /\ [][(prog = "controller" /\ pc = "opened" /\ pc' # pc) => cur'.cmd = "M115"]_vars
    /\ [][(prog = "controller" /\ Returns /\ cur.rtype = "M115"
              /\ pc \in {"timedout", "aborted"})
             => serial_port' = "open"]_vars
    /\ [][(prog = "controller" /\ Returns /\ cur.rtype = "M115" /\ pc = "matched"
              /\ has_versions(response.text))
             => cached_version_info(generic_callback(response.text, cur.rtype))
                    = "{versions}"]_vars

\* C26: if the port cannot be opened, construction fails: there is no
\* constructed engine without an open port.
C26_NoEngineWithoutPort ==
    (prog = "controller" /\ pc # "init") => serial_port = "open"

ExpectedPosition(line) ==
    [name \in {param_names[i] : i \in 1 .. 8} |->
        IF name = "ignore_feedback_pin"
        THEN line.params[8].num = 1
        ELSE LET i == CHOOSE j \in 1 .. 8 : param_names[j] = name
             IN line.params[i].num]

\* The last line of the dump that configures position n, 0 if there is none.
LastLineFor(lines, n) ==
    LET is == {i \in 1 .. Len(lines) : lines[i].kind = "M620" /\ lines[i].n = n}
    IN IF is = {} THEN 0 ELSE CHOOSE i \in is : \A j \in is : j <= i

\* The example of a dump: one board section with positions 0 and 1.
ExampleDump ==
    <<BoardAddrLine(0), M620Line(0, ExampleParams(1)), M620Line(1, ExampleParams(1)),
      OkLine>>

\* Every M620 line of the dump has its eight lettered parameters.
Lettered(lines) ==
    \A i \in 1 .. Len(lines) :
        lines[i].kind = "M620" => \A j \in 1 .. 8 : lines[i].params[j].letter # ""

\* C28: the position-dump parser turns each M620 line with parameters A B C
\* F U V W X into a record for that position whose eight fields are the
\* numbers after the letters, ignore_feedback_pin true exactly when X is 1;
\* the two-line example yields one board 0 with positions 0 and 1, each
\* 180/125/56/4/480/500/2500/true.
C28_DumpParsed ==
    /\ (prog = "parse" /\ applied /\ input.fn = "parse_m620_lines"
            /\ Lettered(input.arg))
           => /\ output.raised = "none"
              /\ \A n \in {0, 1} :
                    LastLineFor(input.arg, n) # 0
                       => /\ n \in DOMAIN output.value
                          /\ output.value[n]
                                 = ExpectedPosition(input.arg[LastLineFor(input.arg, n)])
    /\ (prog = "parse" /\ applied /\ input.fn = "parse_m621_output"
            /\ input.arg = ExampleDump)
           => /\ Len(output.value) = 1
              /\ DOMAIN output.value[1] = {"board_id", "positions"}
              /\ output.value[1]["board_id"] = 0
              /\ DOMAIN output.value[1]["positions"] = {0, 1}
              /\ \A n \in {0, 1} :
                    output.value[1]["positions"][n]
                        = ExpectedPosition(M620Line(n, ExampleParams(1)))

\* The positions a board record of the result holds: none if the record has
\* no "positions" entry.
PositionsOf(r) == DOMAIN Get(r, "positions", <<>>)

\* Line i of the dump is a header whose closing ok is the next line.
EmptySection(lines, i) ==
    /\ i \in 1 .. Len(lines) - 1
    /\ lines[i].kind = "BoardAddr"
    /\ lines[i + 1].kind = "ok"

C30_TopologyLoaded ==
    (prog = "controller" /\ applied /\ input.fn = "FeederBoard")
       => /\ DOMAIN output.value = DOMAIN input.arg
          /\ \A p \in DOMAIN input.arg :
                LET d == input.arg[p]
                    b == output.value[p]
                IN /\ b.feeder_id = Get(d, "feeder_id", "None")
                   /\ b.advance_angle = Get(d, "advance_angle", 120)
                   /\ b.half_advance_angle = Get(d, "half_advance_angle", 60)
                   /\ b.retract_angle = Get(d, "retract_angle", 45)
                   /\ b.default_feed_length = Get(d, "default_feed_length", 4)
                   /\ b.settle_time = Get(d, "settle_time", 200)

\* C24: registering a handler that is not callable fails and leaves the
\* table as it was; registering a callable one leaves a table that maps the
\* command to exactly that handler, replacing any earlier one, with every
\* other entry unchanged.
C24_RegisterHandler ==
    (prog = "controller" /\ applied /\ input.fn = "register_command_callback")
       => LET a == input.arg
          IN IF callable(a.callback)
             THEN /\ output.raised = "none"
                  /\ output.value[a.command] = a.callback
                  /\ \A c \in DOMAIN a.table \ {a.command} :
                        output.value[c] = a.table[c]
                  /\ DOMAIN output.value = DOMAIN a.table
             ELSE /\ output.raised = "ValueError"
                  /\ output.value = a.table

\* A value that is not callable was offered for a command that has a handler,
\* and was refused.
C24_NotCallableRefused ==
    /\ prog = "controller"
    /\ applied
    /\ input.fn = "register_command_callback"
    /\ ~callable(input.arg.callback)
    /\ input.arg.table[input.arg.command] # "none"
    /\ output.raised = "ValueError"

ValidAddress(a) ==
    /\ Len(a) = 3
    /\ a[1] \in {"0", "1", "2", "3", "4"}
    /\ a[2] \in DigitChars
    /\ a[3] \in DigitChars
    /\ NatVal(<<a[2], a[3]>>) <= 12

\* C32: the selected feeder address is always unset or a 3-character string
\* BPP with board digit 0..4 and position 00..12; select_feeder_address
\* stores exactly those strings and leaves the address as it was for any
\* other input.
C32_AddressValid ==
    /\ [](feeder_address = NoAddress \/ ValidAddress(feeder_address))
    /\ [][(prog \in {"tuner", "tweaker"} /\ last'.op = "select")
             => feeder_address' = (IF ValidAddress(last'.instr) THEN last'.instr
                                   ELSE feeder_address)]_vars

\* C37: in jog mode, the key 'e' pressed in command mode ends jog mode.
C37_ExitKeyLeavesJog ==
    [][(prog = "tweaker" /\ jog.active /\ jog.command_mode /\ jog' # jog
           /\ lower(jog'.key) = "e")
          => ~jog'.active]_vars

\* C33: every feeder, whether constructed with explicit angle arguments,
\* cloned or loaded from a persisted document, has its angle unset or an
\* integer in 0..359: an out-of-range angle given at construction or in the
\* file is normalized before it is stored.
C33_AnglesNormalized ==
    /\ (prog = "feeder" /\ applied /\ input.fn \in {"Feeder", "from_dictionary"})
           => /\ output.raised = "none"
              /\ output.value["_advance_angle"] \in (0 .. 359) \cup {NoAngle}
    /\ (prog = "tweaker" /\ applied /\ input.fn = "tweaker.Feeder")
           => output.raised = "none"

\* The board ids of the BoardAddr headers of a dump, in order.
RECURSIVE HeaderIds(_)
HeaderIds(lines) ==
    IF lines = <<>> THEN <<>>
    ELSE IF Head(lines).kind = "BoardAddr"
         THEN <<Head(lines).n>> \o HeaderIds(Tail(lines))
         ELSE HeaderIds(Tail(lines))

\* C35: for every dump the result has exactly one board record per BoardAddr
\* header, in input order and with that header's board_id: no section is
\* emitted twice, none is lost when the next header comes without a closing
\* ok or when the input ends without one, and M620 lines outside any section
\* give no record.
C35_OneRecordPerHeader ==
    (prog = "parse" /\ applied /\ input.fn = "parse_m621_output")
       => LET ids == HeaderIds(input.arg)
          IN /\ Len(output.value) = Len(ids)
             /\ \A j \in 1 .. Len(ids) :
                   /\ "board_id" \in DOMAIN output.value[j]
                   /\ output.value[j]["board_id"] = ids[j]

C34_DumpConsumed ==
    [][(prog = "controller" /\ Returns /\ pc = "matched" /\ cur.cmd = "M621"
           /\ response.tag = cur.seq)
          => \A i \in DOMAIN inbuf' : inbuf'[i].tag # cur.seq]_vars

====
